---------------------------- MODULE Spec2Model ----------------------------
(***************************************************************************)
(* R-tree GiST support functions for temporal numbers (tnumber_gist.c):    *)
(* box arithmetic, the union method, the double-sorting picksplit method   *)
(* and the consistent method with its leaf and internal strategy tables.   *)
(*                                                                         *)
(* Floating-point values are modelled by integers (every coordinate the    *)
(* model draws is a small integer, on which double arithmetic is exact).   *)
(* The two float4 quotients of g_tbox_consider_split (ratio and overlap)   *)
(* are kept as exact fractions [n, d] with d > 0: a correctly rounded      *)
(* quotient is a monotone function of the real quotient, and two distinct  *)
(* quotients of small integers never round to the same float4.             *)
(* The infinities and NaN are three more values, with the arithmetic and   *)
(* the comparisons IEEE 754 gives them; negative zero is not drawn.        *)
(***************************************************************************)
EXTENDS Integers, Sequences, FiniteSets

VARIABLES
    op,            \* the support function under execution
    pc,            \* position inside that function
    entryvec,      \* GistEntryVector: the keys of the entries (slot 1..n)
    outcome,       \* "running", "returned" or "error" (elog(ERROR))
    slotRead,      \* TRUE once an array slot outside the vector was read
    \* ---- gist_tbox_picksplit locals
    context,       \* ConsiderSplitContext
    candidates,    \* history: the arguments of every g_tbox_consider_split call
    intervalsLower, intervalsUpper,  \* the projections, sorted by each bound
    dim,           \* axis under scan
    i1, i2,        \* cursors of the axis scan (C values, 0-based)
    rightLower, leftUpper,
    spl_left, spl_right,   \* GIST_SPLITVEC index lists
    leftBox, rightBox,     \* the boxes behind spl_ldatum / spl_rdatum
    commonEntries,         \* CommonEntry array
    i,                     \* loop index of the assignment loops
    assertFailed,          \* the Assert of the assignment loop failed
    \* ---- gist_tnumber_consistent arguments and results
    key, isLeaf, query, subtype, strategy, result, recheck, deref,
    \* ---- gist_tbox_penalty arguments, locals and result
    origbox, newbox, unionbox, penalty,
    \* ---- gist_tnumber_compress argument and result, the boxes it allocated
    entry, retval, allocated

vars == <<op, pc, entryvec, outcome, slotRead, context, candidates,
          intervalsLower, intervalsUpper, dim, i1, i2,
          rightLower, leftUpper, spl_left, spl_right, leftBox, rightBox,
          commonEntries, i, assertFailed,
          key, isLeaf, query, subtype, strategy, result, recheck, deref,
          origbox, newbox, unionbox, penalty, entry, retval, allocated>>

splitVars == <<context, candidates, intervalsLower, intervalsUpper, dim, i1, i2, rightLower, leftUpper, spl_left,
               spl_right, leftBox, rightBox, commonEntries, i, assertFailed>>

consVars == <<key, isLeaf, query, subtype, strategy, result, recheck, deref>>

methodVars == <<origbox, newbox, unionbox, penalty, entry, retval, allocated>>

-----------------------------------------------------------------------------
(* Bounds of the model *)

\* largest number of entries in a vector handed to picksplit
MaxEntries == 4
\* coordinates on the value axis are 0..MaxX
MaxX == 2
\* coordinates on the time axis are 0..MaxT
MaxT == 1
\* largest number of leaf keys under one internal entry (consistent)
MaxKeys == 2
\* coordinates of the keys and queries of the consistent method are 0..MaxQ
MaxQ == 1
\* finite coordinates of the boxes of the penalty method are 0..MaxP
MaxP == 1
\* largest number of entries in a vector of degenerate boxes
MaxDegEntries == 3
\* largest entry count of a context handed to g_tbox_consider_split alone
MaxCount == 10

-----------------------------------------------------------------------------
(* Values *)

\* a null pointer (a missing box)
NullPtr == [null |-> TRUE]

\* palloc0(sizeof(TBOX)) / memset(.., 0, ..): the all-zero box
ZeroBox == [xmin |-> 0, xmax |-> 0, tmin |-> 0, tmax |-> 0]

\* valid boxes (xmin <= xmax, tmin <= tmax) with coordinates up to mx and mt
BoxesUpTo(mx, mt) ==
    { [xmin |-> a, xmax |-> b, tmin |-> c, tmax |-> d] :
        <<a, b, c, d>> \in { q \in (0..mx) \X (0..mx) \X (0..mt) \X (0..mt) :
                               q[1] <= q[2] /\ q[3] <= q[4] } }

\* what a read of uninitialised memory may yield
Garbage == 0..1

\* LIMIT_RATIO 0.3 as the fraction LimitNum / LimitDen
LimitNum == 3
LimitDen == 10

-----------------------------------------------------------------------------
(* Double values.  A finite value is the integer itself, of magnitude below *)
(* PosInf; the codes of the three other values are ordered as                *)
(* float8_cmp_internal orders them: -Infinity below every finite value,      *)
(* +Infinity above, NaN above +Infinity.                                     *)

\* get_float8_infinity()
PosInf == 1000
NegInf == 0 - PosInf
\* get_float8_nan()
NaN == 2000

isnan(x) == x = NaN
isinf(x) == x = PosInf \/ x = NegInf

\* a - b on doubles
FSub(a, b) ==
    IF isnan(a) \/ isnan(b) THEN NaN
    ELSE IF a = PosInf THEN (IF b = PosInf THEN NaN ELSE PosInf)
    ELSE IF a = NegInf THEN (IF b = NegInf THEN NaN ELSE NegInf)
    ELSE IF b = PosInf THEN NegInf
    ELSE IF b = NegInf THEN PosInf
    ELSE a - b

\* a * b on doubles
FMul(a, b) ==
    IF isnan(a) \/ isnan(b) THEN NaN
    ELSE IF isinf(a) \/ isinf(b)
    THEN IF a = 0 \/ b = 0 THEN NaN
         ELSE IF (a > 0) = (b > 0) THEN PosInf ELSE NegInf
    ELSE a * b

\* the C operators <, >, <=, >= and == on doubles: false when an operand is NaN
DoubleLT(a, b) == ~isnan(a) /\ ~isnan(b) /\ a < b
DoubleGT(a, b) == DoubleLT(b, a)
DoubleEQ(a, b) == ~isnan(a) /\ ~isnan(b) /\ a = b
DoubleLE(a, b) == DoubleLT(a, b) \/ DoubleEQ(a, b)
DoubleGE(a, b) == DoubleLE(b, a)

-----------------------------------------------------------------------------
(* NaN-aware comparison macros *)

\* NaN equals NaN and is larger than any other value
float8_cmp_internal(a, b) == IF a < b THEN -1 ELSE IF a > b THEN 1 ELSE 0

FLOAT8_EQ(a, b) == float8_cmp_internal(a, b) = 0
FLOAT8_LT(a, b) == float8_cmp_internal(a, b) < 0
FLOAT8_LE(a, b) == float8_cmp_internal(a, b) <= 0
FLOAT8_GT(a, b) == float8_cmp_internal(a, b) > 0
FLOAT8_GE(a, b) == float8_cmp_internal(a, b) >= 0
FLOAT8_MAX(a, b) == IF FLOAT8_GT(a, b) THEN a ELSE b
FLOAT8_MIN(a, b) == IF FLOAT8_LT(a, b) THEN a ELSE b

-----------------------------------------------------------------------------
(* Box arithmetic *)

rt_tbox_union(a, b) ==
    [xmax |-> FLOAT8_MAX(a.xmax, b.xmax),
     tmax |-> FLOAT8_MAX(a.tmax, b.tmax),
     xmin |-> FLOAT8_MIN(a.xmin, b.xmin),
     tmin |-> FLOAT8_MIN(a.tmin, b.tmin)]

size_tbox(box) ==
    IF FLOAT8_LE(box.xmax, box.xmin) \/ FLOAT8_LE(box.tmax, box.tmin)
    THEN 0
    ELSE IF isnan(box.xmax) THEN PosInf
    ELSE FMul(FSub(box.xmax, box.xmin), FSub(box.tmax, box.tmin))

box_penalty(original, new) ==
    FSub(size_tbox(rt_tbox_union(original, new)), size_tbox(original))

adjustBox(b, addon) ==
    [xmax |-> IF FLOAT8_LT(b.xmax, addon.xmax) THEN addon.xmax ELSE b.xmax,
     xmin |-> IF FLOAT8_GT(b.xmin, addon.xmin) THEN addon.xmin ELSE b.xmin,
     tmax |-> IF FLOAT8_LT(b.tmax, addon.tmax) THEN addon.tmax ELSE b.tmax,
     tmin |-> IF FLOAT8_GT(b.tmin, addon.tmin) THEN addon.tmin ELSE b.tmin]

\* Abs of a double: NaN stays NaN, -Infinity becomes +Infinity
Abs(x) == IF x < 0 THEN -x ELSE x
Min(a, b) == IF a < b THEN a ELSE b

-----------------------------------------------------------------------------
(* Float quotients kept as exact fractions *)

Frac(a, b) == [n |-> a, d |-> b]

\* the float4 values that are no quotient: d = 0
FracPosInf == Frac(1, 0)
FracNegInf == Frac(-1, 0)
FracNaN == Frac(0, 0)
FracIsNaN(x) == x.d = 0 /\ x.n = 0

\* (float4) (a / b) for doubles a and b
FDiv(a, b) ==
    IF isnan(a) \/ isnan(b) THEN FracNaN
    ELSE IF isinf(a)
    THEN IF isinf(b) THEN FracNaN
         ELSE IF (a > 0) = (b >= 0) THEN FracPosInf ELSE FracNegInf
    ELSE IF isinf(b) THEN Frac(0, 1)
    ELSE IF b = 0
    THEN IF a = 0 THEN FracNaN
         ELSE IF a > 0 THEN FracPosInf ELSE FracNegInf
    ELSE IF b > 0 THEN Frac(a, b) ELSE Frac(-a, -b)

\* the C operators <, ==, <= and > on float4: false when an operand is NaN
FracLT(x, y) ==
    /\ ~FracIsNaN(x) /\ ~FracIsNaN(y)
    /\ IF x.d = 0 /\ y.d = 0 THEN x.n < y.n ELSE x.n * y.d < y.n * x.d
FracEQ(x, y) ==
    /\ ~FracIsNaN(x) /\ ~FracIsNaN(y)
    /\ IF x.d = 0 /\ y.d = 0 THEN x.n = y.n ELSE x.n * y.d = y.n * x.d
FracLE(x, y) == FracLT(x, y) \/ FracEQ(x, y)
FracGT(x, y) == FracLT(y, x)

\* replace a negative (or NaN) value with zero
non_negative(val) == IF FracLE(Frac(0, 1), val) THEN val ELSE Frac(0, 1)

\* faulty variant: a split is accepted only above one half
RatioAcceptedAboveHalf(ratio) == ratio.n * 2 > ratio.d

\* float4 ratio > (double) LIMIT_RATIO.  The float4 nearest to 3/10 is
\* 0.300000012, which exceeds the double 0.3, so a quotient of exactly 3/10
\* passes the test; every other quotient of small integers compares as its
\* real value does.
RatioAccepted(ratio) == ratio.n * LimitDen >= LimitNum * ratio.d

\* ceil(LIMIT_RATIO * (double) nentries)
MinFill(nentries) == (LimitNum * nentries + LimitDen - 1) \div LimitDen

-----------------------------------------------------------------------------
(* qsort: PostgreSQL's qsort sorts fewer than 7 elements by insertion, which *)
(* keeps the input order of elements that compare equal.  field names the   *)
(* member the comparison function reads.                                     *)

RECURSIVE qsort(_, _)
qsort(a, field) ==
    IF Len(a) <= 1 THEN a
    ELSE LET s == qsort(SubSeq(a, 1, Len(a) - 1), field)
             e == a[Len(a)]
             p == Cardinality({ j \in 1..Len(s) :
                                  float8_cmp_internal(s[j][field], e[field]) <= 0 })
         IN  SubSeq(s, 1, p) \o <<e>> \o SubSeq(s, p + 1, Len(s))

-----------------------------------------------------------------------------
(* gist_tbox_union *)

RECURSIVE UnionLoop(_, _, _)
UnionLoop(vec, k, pageunion) ==
    IF k > Len(vec) THEN pageunion
    ELSE UnionLoop(vec, k + 1, adjustBox(pageunion, vec[k]))

\* the minimal bounding box of a non-empty vector
BoundingBoxOf(vec) == UnionLoop(vec, 2, vec[1])

-----------------------------------------------------------------------------
(* tbox_fallbackSplit: entries 1..maxoff, the first maxoff / 2 go left *)

RECURSIVE FallbackLoop(_, _, _)
FallbackLoop(vec, k, v) ==
    IF k > Len(vec) THEN v
    ELSE LET cur == vec[k] IN
         IF k <= Len(vec) \div 2
         THEN FallbackLoop(vec, k + 1,
                [v EXCEPT !.spl_left = Append(@, k),
                          !.unionL = IF @ = NullPtr THEN cur
                                     ELSE adjustBox(@, cur)])
         ELSE FallbackLoop(vec, k + 1,
                [v EXCEPT !.spl_right = Append(@, k),
                          !.unionR = IF @ = NullPtr THEN cur
                                     ELSE adjustBox(@, cur)])

\* faulty variant: the loop starts one entry too far
tbox_fallbackSplitSkipsFirst(vec) ==
    FallbackLoop(vec, 2, [spl_left |-> <<>>, spl_right |-> <<>>,
                          unionL |-> NullPtr, unionR |-> NullPtr])

tbox_fallbackSplit(vec) ==
    FallbackLoop(vec, 1, [spl_left |-> <<>>, spl_right |-> <<>>,
                          unionL |-> NullPtr, unionR |-> NullPtr])

-----------------------------------------------------------------------------
(* g_tbox_consider_split *)

\* faulty variant: the common entries are all counted on the left
LeftCountMostLeft(entriesCount, minLeftCount, maxLeftCount) == maxLeftCount

\* leftCount under the most uniform distribution of the common entries
LeftCount(entriesCount, minLeftCount, maxLeftCount) ==
    IF minLeftCount >= (entriesCount + 1) \div 2 THEN minLeftCount
    ELSE IF maxLeftCount <= entriesCount \div 2 THEN maxLeftCount
    ELSE entriesCount \div 2

AxisRange(box, dimNum) ==
    IF dimNum = 0 THEN FSub(box.xmax, box.xmin) ELSE FSub(box.tmax, box.tmin)

\* faulty variant: within one axis the first accepted candidate is never replaced
SelectThisKeepsFirstOnAxis(ctx, dimNum, ratio, overlap, range) ==
    IF ctx.first THEN TRUE
    ELSE IF ctx.dim = dimNum THEN FALSE
    ELSE FracLT(non_negative(overlap), non_negative(ctx.overlap))
         \/ (DoubleGT(range, ctx.range)
             /\ FracLE(non_negative(overlap), non_negative(ctx.overlap)))

\* faulty variant: within one axis a candidate of equal overlap replaces the
\* selected split whatever its ratio
SelectThisOnTies(ctx, dimNum, ratio, overlap, range) ==
    IF ctx.first THEN TRUE
    ELSE IF ctx.dim = dimNum
    THEN FracLE(overlap, ctx.overlap)
    ELSE FracLT(non_negative(overlap), non_negative(ctx.overlap))
         \/ (DoubleGT(range, ctx.range)
             /\ FracLE(non_negative(overlap), non_negative(ctx.overlap)))

\* the test that decides whether the candidate replaces the selected split
SelectThis(ctx, dimNum, ratio, overlap, range) ==
    IF ctx.first THEN TRUE
    ELSE IF ctx.dim = dimNum
    THEN FracLT(overlap, ctx.overlap)
         \/ (FracEQ(overlap, ctx.overlap) /\ FracGT(ratio, ctx.ratio))
    ELSE FracLT(non_negative(overlap), non_negative(ctx.overlap))
         \/ (DoubleGT(range, ctx.range)
             /\ FracLE(non_negative(overlap), non_negative(ctx.overlap)))

g_tbox_consider_split(ctx, dimNum, rl, minLeftCount, lu, maxLeftCount) ==
    LET leftCount == LeftCount(ctx.entriesCount, minLeftCount, maxLeftCount)
        rightCount == ctx.entriesCount - leftCount
        ratio == Frac(Min(leftCount, rightCount), ctx.entriesCount)
        range == AxisRange(ctx.boundingBox, dimNum)
        overlap == FDiv(FSub(lu, rl), range)
    IN  IF RatioAccepted(ratio) /\ SelectThis(ctx, dimNum, ratio, overlap, range)
        THEN [ctx EXCEPT !.first = FALSE, !.ratio = ratio, !.range = range,
                         !.overlap = overlap, !.rightLower = rl,
                         !.leftUpper = lu, !.dim = dimNum]
        ELSE ctx

-----------------------------------------------------------------------------
(* gist_tbox_picksplit: the axis scan *)

nentries == Len(entryvec)

\* the projection of every entry on axis d
Project(vec, d) ==
    [k \in 1..Len(vec) |->
        IF d = 0 THEN [lower |-> vec[k].xmin, upper |-> vec[k].xmax]
                 ELSE [lower |-> vec[k].tmin, upper |-> vec[k].tmax]]

\* the two sorted arrays of the intervals of axis d
SortedByLower(vec, d) == qsort(Project(vec, d), "lower")
SortedByUpper(vec, d) == qsort(Project(vec, d), "upper")

\* a read of slot k (0-based) of an array of intervals; a slot outside the
\* array holds whatever the memory holds
ReadSlot(arr, k, field) ==
    IF k \in 0..(Len(arr) - 1) THEN {arr[k + 1][field]} ELSE Garbage

OutOfRange(arr, k) == k \notin 0..(Len(arr) - 1)

\* faulty variant: the lower bounds are compared with the C operator ==, under
\* which NaN differs from NaN
RECURSIVE NextRightLowerPlainEq(_, _, _, _)
NextRightLowerPlainEq(L, c1, rl, lu) ==
    IF c1 < Len(L) /\ DoubleEQ(rl, L[c1 + 1].lower)
    THEN NextRightLowerPlainEq(L, c1 + 1, rl,
            IF FLOAT8_LT(lu, L[c1 + 1].upper) THEN L[c1 + 1].upper ELSE lu)
    ELSE [i1 |-> c1, leftUpper |-> lu]

\* faulty variant: the skipped entries do not raise leftUpper
RECURSIVE NextRightLowerKeepsUpper(_, _, _, _)
NextRightLowerKeepsUpper(L, c1, rl, lu) ==
    IF c1 < Len(L) /\ FLOAT8_EQ(rl, L[c1 + 1].lower)
    THEN NextRightLowerKeepsUpper(L, c1 + 1, rl, lu)
    ELSE [i1 |-> c1, leftUpper |-> lu]

\* inner loop of the first scan: skip the entries whose lower bound equals
\* rightLower, raising leftUpper to their upper bounds
RECURSIVE NextRightLower(_, _, _, _)
NextRightLower(L, c1, rl, lu) ==
    IF c1 < Len(L) /\ FLOAT8_EQ(rl, L[c1 + 1].lower)
    THEN NextRightLower(L, c1 + 1, rl,
            IF FLOAT8_LT(lu, L[c1 + 1].upper) THEN L[c1 + 1].upper ELSE lu)
    ELSE [i1 |-> c1, leftUpper |-> lu]

\* count of intervals which anyway should be placed to the left group
RECURSIVE CountLeft(_, _, _)
CountLeft(U, c2, lu) ==
    IF c2 < Len(U) /\ FLOAT8_LE(U[c2 + 1].upper, lu)
    THEN CountLeft(U, c2 + 1, lu) ELSE c2

\* inner loop of the second scan: skip the entries whose upper bound equals
\* leftUpper, lowering rightLower to their lower bounds
RECURSIVE NextLeftUpper(_, _, _, _)
NextLeftUpper(U, c2, lu, rl) ==
    IF c2 >= 0 /\ FLOAT8_EQ(lu, U[c2 + 1].upper)
    THEN NextLeftUpper(U, c2 - 1, lu,
            IF FLOAT8_GT(rl, U[c2 + 1].lower) THEN U[c2 + 1].lower ELSE rl)
    ELSE [i2 |-> c2, rightLower |-> rl]

\* count of intervals which anyway should be placed to the right group
RECURSIVE CountRight(_, _, _)
CountRight(L, c1, rl) ==
    IF c1 >= 0 /\ FLOAT8_GE(L[c1 + 1].lower, rl)
    THEN CountRight(L, c1 - 1, rl) ELSE c1

\* project and sort the entries on axis d, then
\* i1 = 0; i2 = 0; rightLower = intervalsLower[i1].lower;
\* leftUpper = intervalsUpper[i2].lower;
EnterLowerScan(d) ==
    /\ intervalsLower' = SortedByLower(entryvec, d)
    /\ intervalsUpper' = SortedByUpper(entryvec, d)
    /\ i1' = 0
    /\ i2' = 0
    /\ rightLower' \in ReadSlot(intervalsLower', 0, "lower")
    /\ leftUpper' \in ReadSlot(intervalsUpper', 0, "lower")
    /\ slotRead' = (slotRead \/ OutOfRange(entryvec, 0))

\* i1 = nentries - 1; i2 = nentries - 1; rightLower = intervalsLower[i1].upper;
\* leftUpper = intervalsUpper[i2].upper;
EnterUpperScan ==
    /\ i1' = nentries - 1
    /\ i2' = nentries - 1
    /\ rightLower' \in ReadSlot(intervalsLower, nentries - 1, "upper")
    /\ leftUpper' \in ReadSlot(intervalsUpper, nentries - 1, "upper")
    /\ slotRead' = (slotRead \/ OutOfRange(entryvec, nentries - 1))
    /\ UNCHANGED <<intervalsLower, intervalsUpper>>

\* the arguments of one call of g_tbox_consider_split
Candidate(d, rl, minLeftCount, lu, maxLeftCount) ==
    [dim |-> d, rightLower |-> rl, minLeftCount |-> minLeftCount,
     leftUpper |-> lu, maxLeftCount |-> maxLeftCount]

InitialContext(vec) ==
    [entriesCount |-> Len(vec),
     boundingBox |-> IF Len(vec) = 0 THEN ZeroBox ELSE BoundingBoxOf(vec),
     first |-> TRUE, leftUpper |-> 0, rightLower |-> 0,
     ratio |-> Frac(0, 1), overlap |-> Frac(0, 1), dim |-> 0, range |-> 0]

\* entry of gist_tbox_picksplit up to the first scan of axis 0
PickSplitStart ==
    /\ op = "picksplit" /\ pc = "start"
    /\ context' = InitialContext(entryvec)
    /\ candidates' = {}
    /\ dim' = 0
    /\ EnterLowerScan(0)
    /\ pc' = "lower"
    /\ UNCHANGED <<op, entryvec, outcome, spl_left, spl_right, leftBox,
                   rightBox, commonEntries, i, assertFailed>>
    /\ UNCHANGED consVars
    /\ UNCHANGED methodVars

\* one iteration of the outer loop over the lower bound of the right group
ScanLower ==
    /\ op = "picksplit" /\ pc = "lower"
    /\ LET L == intervalsLower
           U == intervalsUpper
           a == NextRightLower(L, i1, rightLower, leftUpper)
       IN  IF a.i1 >= nentries
           THEN /\ EnterUpperScan
                /\ pc' = "upper"
                /\ UNCHANGED <<context, candidates>>
           ELSE LET rl == L[a.i1 + 1].lower
                    c2 == CountLeft(U, i2, a.leftUpper)
                IN  /\ i1' = a.i1
                    /\ i2' = c2
                    /\ rightLower' = rl
                    /\ leftUpper' = a.leftUpper
                    /\ context' = g_tbox_consider_split(context, dim, rl, a.i1,
                                                        a.leftUpper, c2)
                    /\ candidates' = candidates \cup
                            {Candidate(dim, rl, a.i1, a.leftUpper, c2)}
                    /\ pc' = "lower"
                    /\ UNCHANGED <<slotRead, intervalsLower, intervalsUpper>>
    /\ UNCHANGED <<op, entryvec, outcome, dim, spl_left, spl_right, leftBox,
                   rightBox, commonEntries, i, assertFailed>>
    /\ UNCHANGED consVars
    /\ UNCHANGED methodVars

\* one iteration of the outer loop over the upper bound of the left group
ScanUpper ==
    /\ op = "picksplit" /\ pc = "upper"
    /\ LET L == intervalsLower
           U == intervalsUpper
           a == NextLeftUpper(U, i2, leftUpper, rightLower)
       IN  IF a.i2 < 0
           THEN IF dim = 0
                THEN /\ dim' = 1
                     /\ EnterLowerScan(1)
                     /\ pc' = "lower"
                     /\ UNCHANGED <<context, candidates>>
                ELSE /\ dim' = 2
                     /\ pc' = "select"
                     /\ UNCHANGED <<context, candidates, i1, i2, rightLower, leftUpper,
                                    slotRead, intervalsLower, intervalsUpper>>
           ELSE LET lu == U[a.i2 + 1].upper
                    c1 == CountRight(L, i1, a.rightLower)
                IN  /\ i1' = c1
                    /\ i2' = a.i2
                    /\ rightLower' = a.rightLower
                    /\ leftUpper' = lu
                    /\ context' = g_tbox_consider_split(context, dim,
                                      a.rightLower, c1 + 1, lu, a.i2 + 1)
                    /\ candidates' = candidates \cup
                            {Candidate(dim, a.rightLower, c1 + 1, lu, a.i2 + 1)}
                    /\ pc' = "upper"
                    /\ UNCHANGED <<dim, slotRead, intervalsLower,
                                   intervalsUpper>>
    /\ UNCHANGED <<op, entryvec, outcome, spl_left, spl_right, leftBox,
                   rightBox, commonEntries, i, assertFailed>>
    /\ UNCHANGED consVars
    /\ UNCHANGED methodVars

-----------------------------------------------------------------------------
(* gist_tbox_picksplit: the assignment phase *)

\* faulty variant: the first entry of the left group is merged into the zeroed box
\* instead of being copied
PLACE_LEFT_AlwaysAdjust(box, off) ==
    /\ leftBox' = adjustBox(leftBox, box)
    /\ spl_left' = Append(spl_left, off)
    /\ UNCHANGED <<rightBox, spl_right>>

\* PLACE_LEFT(box, off)
PLACE_LEFT(box, off) ==
    /\ leftBox' = IF Len(spl_left) > 0 THEN adjustBox(leftBox, box) ELSE box
    /\ spl_left' = Append(spl_left, off)
    /\ UNCHANGED <<rightBox, spl_right>>

\* PLACE_RIGHT(box, off)
PLACE_RIGHT(box, off) ==
    /\ rightBox' = IF Len(spl_right) > 0 THEN adjustBox(rightBox, box) ELSE box
    /\ spl_right' = Append(spl_right, off)
    /\ UNCHANGED <<leftBox, spl_left>>

\* bounds of a box along the selected axis
LowerOn(box, d) == IF d = 0 THEN box.xmin ELSE box.tmin
UpperOn(box, d) == IF d = 0 THEN box.xmax ELSE box.tmax

\* if (context.first) { tbox_fallbackSplit(entryvec, v); return v; }
FallbackSplit ==
    /\ op = "picksplit" /\ pc = "select"
    /\ context.first
    /\ LET v == tbox_fallbackSplit(entryvec)
       IN  /\ spl_left' = v.spl_left
           /\ spl_right' = v.spl_right
           /\ leftBox' = v.unionL
           /\ rightBox' = v.unionR
    /\ pc' = "fallback"
    /\ outcome' = "returned"
    /\ UNCHANGED <<op, entryvec, slotRead, context, candidates, dim, i1, i2, rightLower,
                   leftUpper, commonEntries, i, assertFailed,
                   intervalsLower, intervalsUpper>>
    /\ UNCHANGED consVars
    /\ UNCHANGED methodVars

\* a split was selected: allocate the result vectors and the two boxes
AllocateResult ==
    /\ op = "picksplit" /\ pc = "select"
    /\ ~context.first
    /\ spl_left' = <<>>
    /\ spl_right' = <<>>
    /\ leftBox' = ZeroBox
    /\ rightBox' = ZeroBox
    /\ commonEntries' = <<>>
    /\ i' = 1
    /\ pc' = "distribute"
    /\ UNCHANGED <<op, entryvec, outcome, slotRead, context, candidates, dim, i1, i2,
                   rightLower, leftUpper, assertFailed, intervalsLower,
                   intervalsUpper>>
    /\ UNCHANGED consVars
    /\ UNCHANGED methodVars

\* one iteration of the loop that places the unambiguous entries and
\* collects the common ones
Distribute ==
    /\ op = "picksplit" /\ pc = "distribute"
    /\ i <= nentries
    /\ LET box == entryvec[i]
           lower == LowerOn(box, context.dim)
           upper == UpperOn(box, context.dim)
       IN  IF FLOAT8_LE(upper, context.leftUpper)
           THEN IF FLOAT8_GE(lower, context.rightLower)
                THEN /\ commonEntries' =
                            Append(commonEntries, [index |-> i, delta |-> 0])
                     /\ UNCHANGED <<leftBox, spl_left, rightBox, spl_right,
                                    assertFailed>>
                ELSE /\ PLACE_LEFT(box, i)
                     /\ UNCHANGED <<commonEntries, assertFailed>>
           ELSE /\ assertFailed' =
                       (assertFailed \/ ~FLOAT8_GE(lower, context.rightLower))
                /\ PLACE_RIGHT(box, i)
                /\ UNCHANGED commonEntries
    /\ i' = i + 1
    /\ UNCHANGED <<op, pc, entryvec, outcome, slotRead, context, candidates, dim, i1, i2,
                   rightLower, leftUpper, intervalsLower, intervalsUpper>>
    /\ UNCHANGED consVars
    /\ UNCHANGED methodVars

\* compare common entries by their deltas
common_entry_cmp(e1, e2) ==
    IF DoubleLT(e1.delta, e2.delta) THEN -1
    ELSE IF DoubleGT(e1.delta, e2.delta) THEN 1
    ELSE 0

\* qsort(commonEntries, commonEntriesCount, sizeof(CommonEntry),
\*       common_entry_cmp): the insertion sort of a short array, which moves
\* each element down while its left neighbour compares greater
RECURSIVE InsertCommon(_, _)
InsertCommon(s, e) ==
    IF Len(s) > 0 /\ common_entry_cmp(s[Len(s)], e) > 0
    THEN Append(InsertCommon(SubSeq(s, 1, Len(s) - 1), e), s[Len(s)])
    ELSE Append(s, e)

RECURSIVE SortCommon(_)
SortCommon(a) ==
    IF Len(a) <= 1 THEN a
    ELSE InsertCommon(SortCommon(SubSeq(a, 1, Len(a) - 1)), a[Len(a)])

\* delta of every common entry against the boxes of the two groups, then
\* the sort by delta
ComputeDeltas(vec, ce, lb, rb) ==
    SortCommon([k \in 1..Len(ce) |->
                  [index |-> ce[k].index,
                   delta |-> Abs(FSub(box_penalty(lb, vec[ce[k].index]),
                                      box_penalty(rb, vec[ce[k].index])))]])

\* the end of the first assignment loop
DistributeDone ==
    /\ op = "picksplit" /\ pc = "distribute"
    /\ i > nentries
    /\ IF Len(commonEntries) > 0
       THEN /\ commonEntries' =
                   ComputeDeltas(entryvec, commonEntries, leftBox, rightBox)
            /\ i' = 0
            /\ pc' = "common"
            /\ UNCHANGED outcome
       ELSE /\ pc' = "done"
            /\ outcome' = "returned"
            /\ UNCHANGED <<commonEntries, i>>
    /\ UNCHANGED <<op, entryvec, slotRead, context, candidates, dim, i1, i2, rightLower,
                   leftUpper, spl_left, spl_right, leftBox, rightBox,
                   assertFailed, intervalsLower, intervalsUpper>>
    /\ UNCHANGED consVars
    /\ UNCHANGED methodVars

\* faulty variant: common entries go by penalty alone, the quota is not enforced
CommonSideByPenalty(box, k, count, nleft, nright, m, lb, rb) ==
    IF DoubleLT(box_penalty(lb, box), box_penalty(rb, box))
    THEN "left" ELSE "right"

\* faulty variant: a common entry of equal penalties goes left
CommonSideLeftOnTie(box, k, count, nleft, nright, m, lb, rb) ==
    IF nleft + (count - k) <= m THEN "left"
    ELSE IF nright + (count - k) <= m THEN "right"
    ELSE IF DoubleLE(box_penalty(lb, box), box_penalty(rb, box)) THEN "left"
    ELSE "right"

\* where common entry number k (0-based) goes: "left" or "right"
CommonSide(box, k, count, nleft, nright, m, lb, rb) ==
    IF nleft + (count - k) <= m THEN "left"
    ELSE IF nright + (count - k) <= m THEN "right"
    ELSE IF DoubleLT(box_penalty(lb, box), box_penalty(rb, box)) THEN "left"
    ELSE "right"

\* faulty variant: the loop over the common entries stops one entry short
CommonLoopStopsEarly(k, count) == k < count - 1

\* for (i = 0; i < commonEntriesCount; i++)
CommonLoopRuns(k, count) == k < count

\* one iteration of the loop that distributes the common entries
DistributeCommon ==
    /\ op = "picksplit" /\ pc = "common"
    /\ CommonLoopRuns(i, Len(commonEntries))
    /\ LET off == commonEntries[i + 1].index
           box == entryvec[off]
           side == CommonSide(box, i, Len(commonEntries), Len(spl_left),
                              Len(spl_right), MinFill(nentries),
                              leftBox, rightBox)
       IN  IF side = "left" THEN PLACE_LEFT(box, off)
                            ELSE PLACE_RIGHT(box, off)
    /\ i' = i + 1
    /\ UNCHANGED <<op, pc, entryvec, outcome, slotRead, context, candidates, dim, i1, i2,
                   rightLower, leftUpper, commonEntries, assertFailed,
                   intervalsLower, intervalsUpper>>
    /\ UNCHANGED consVars
    /\ UNCHANGED methodVars

\* the end of the second assignment loop: the two boxes are returned
CommonDone ==
    /\ op = "picksplit" /\ pc = "common"
    /\ ~CommonLoopRuns(i, Len(commonEntries))
    /\ pc' = "done"
    /\ outcome' = "returned"
    /\ UNCHANGED <<op, entryvec, slotRead>>
    /\ UNCHANGED splitVars
    /\ UNCHANGED consVars
    /\ UNCHANGED methodVars

gist_tbox_picksplit ==
    \/ PickSplitStart
    \/ ScanLower
    \/ ScanUpper
    \/ FallbackSplit
    \/ AllocateResult
    \/ Distribute
    \/ DistributeDone
    \/ DistributeCommon
    \/ CommonDone

-----------------------------------------------------------------------------
(* Box predicates of temporal_boxops (topological and relative position) *)

overlaps_tbox_tbox_internal(a, b) ==
    ~(a.xmax < b.xmin \/ a.xmin > b.xmax \/ a.tmax < b.tmin \/ a.tmin > b.tmax)
contains_tbox_tbox_internal(a, b) ==
    a.xmin <= b.xmin /\ a.xmax >= b.xmax /\ a.tmin <= b.tmin /\ a.tmax >= b.tmax
contained_tbox_tbox_internal(a, b) == contains_tbox_tbox_internal(b, a)
same_tbox_tbox_internal(a, b) ==
    a.xmin = b.xmin /\ a.xmax = b.xmax /\ a.tmin = b.tmin /\ a.tmax = b.tmax
left_tbox_tbox_internal(a, b) == a.xmax < b.xmin
overleft_tbox_tbox_internal(a, b) == a.xmax <= b.xmax
right_tbox_tbox_internal(a, b) == a.xmin > b.xmax
overright_tbox_tbox_internal(a, b) == a.xmin >= b.xmin
before_tbox_tbox_internal(a, b) == a.tmax < b.tmin
overbefore_tbox_tbox_internal(a, b) == a.tmax <= b.tmax
after_tbox_tbox_internal(a, b) == a.tmin > b.tmax
overafter_tbox_tbox_internal(a, b) == a.tmin >= b.tmin

-----------------------------------------------------------------------------
(* The strategy tables.  A table returns [err, retval]: err is the          *)
(* elog(ERROR) of its default branch.                                       *)

RecognizedStrategies ==
    {"RTOverlap", "RTContains", "RTContainedBy", "RTSame",
     "RTLeft", "RTOverLeft", "RTRight", "RTOverRight",
     "RTBefore", "RTOverBefore", "RTAfter", "RTOverAfter"}

\* a strategy number of the R-tree family that neither table knows
Strategies == RecognizedStrategies \cup {"RTOverBelow"}

Answer(b) == [err |-> FALSE, retval |-> b]

\* faulty variant: the default branch answers "no match" (retval = false) instead
\* of raising the error
UnrecognizedAsNoMatch == [err |-> FALSE, retval |-> FALSE]

\* default: elog(ERROR, "unrecognized strategy number: %d", strategy);
UnrecognizedStrategy == [err |-> TRUE, retval |-> FALSE]

index_leaf_consistent_tbox(k, q, strat) ==
    CASE strat = "RTOverlap" -> Answer(overlaps_tbox_tbox_internal(k, q))
      [] strat = "RTContains" -> Answer(contains_tbox_tbox_internal(k, q))
      [] strat = "RTContainedBy" -> Answer(contained_tbox_tbox_internal(k, q))
      [] strat = "RTSame" -> Answer(same_tbox_tbox_internal(k, q))
      [] strat = "RTLeft" -> Answer(k.xmax <= q.xmin)
      [] strat = "RTOverLeft" -> Answer(overleft_tbox_tbox_internal(k, q))
      [] strat = "RTRight" -> Answer(k.xmin >= q.xmax)
      [] strat = "RTOverRight" -> Answer(overright_tbox_tbox_internal(k, q))
      [] strat = "RTBefore" -> Answer(k.tmax <= q.tmin)
      [] strat = "RTOverBefore" -> Answer(overbefore_tbox_tbox_internal(k, q))
      [] strat = "RTAfter" -> Answer(k.tmin >= q.tmax)
      [] strat = "RTOverAfter" -> Answer(overafter_tbox_tbox_internal(k, q))
      [] OTHER -> UnrecognizedStrategy

gist_internal_consistent_tbox(k, q, strat) ==
    CASE strat \in {"RTOverlap", "RTContainedBy"} ->
            Answer(overlaps_tbox_tbox_internal(k, q))
      [] strat \in {"RTContains", "RTSame"} ->
            Answer(contains_tbox_tbox_internal(k, q))
      [] strat = "RTLeft" -> Answer(~overright_tbox_tbox_internal(k, q))
      [] strat = "RTOverLeft" -> Answer(~right_tbox_tbox_internal(k, q))
      [] strat = "RTRight" -> Answer(~overleft_tbox_tbox_internal(k, q))
      [] strat = "RTOverRight" -> Answer(~left_tbox_tbox_internal(k, q))
      [] strat = "RTBefore" -> Answer(~overafter_tbox_tbox_internal(k, q))
      [] strat = "RTOverBefore" -> Answer(~after_tbox_tbox_internal(k, q))
      [] strat = "RTAfter" -> Answer(~overbefore_tbox_tbox_internal(k, q))
      [] strat = "RTOverAfter" -> Answer(~before_tbox_tbox_internal(k, q))
      [] OTHER -> UnrecognizedStrategy

-----------------------------------------------------------------------------
(* gist_tnumber_consistent *)

\* the boxes of the keys and of the queries
QBoxes == BoxesUpTo(MaxQ, MaxQ)

\* the types of query argument the function converts to a box
QuerySubtypes == {"T_INTRANGE", "T_FLOATRANGE", "T_TBOX", "temporal"}

\* some other type
Subtypes == QuerySubtypes \cup {"other"}

\* faulty variant: only leaf answers ask for a recheck
RecheckLeafOnly(leaf) == leaf

\* *recheck = true;
RecheckOnEntry(leaf) == TRUE

\* if (key == NULL) PG_RETURN_BOOL(false);
KeyIsNull(k) == k = NullPtr

\* faulty variant: the query argument is not tested for null
QueryNeverNull(q) == FALSE

\* if (range == NULL) ... if (box == NULL) ... if (temp == NULL)
\*     PG_RETURN_BOOL(false);
QueryIsNull(q) == q = NullPtr

\* the call of the table of the entry's level; reading a box through a null
\* pointer crashes the backend
EvaluateTable(k, leaf, q, strat) ==
    IF k = NullPtr \/ q = NullPtr
    THEN [outcome |-> "crash", result |-> FALSE, deref |-> TRUE]
    ELSE LET r == IF leaf THEN index_leaf_consistent_tbox(k, q, strat)
                          ELSE gist_internal_consistent_tbox(k, q, strat)
         IN  [outcome |-> IF r.err THEN "error" ELSE "returned",
              result |-> r.retval, deref |-> FALSE]

\* what the call does after setting the recheck flag
ConsistentBody(k, leaf, q, st, strat) ==
    IF KeyIsNull(k)
    THEN [outcome |-> "returned", result |-> FALSE, deref |-> FALSE]
    ELSE IF st \in QuerySubtypes
    THEN IF QueryIsNull(q)
         THEN [outcome |-> "returned", result |-> FALSE, deref |-> FALSE]
         ELSE EvaluateTable(k, leaf, q, strat)
    ELSE [outcome |-> "error", result |-> FALSE, deref |-> FALSE]

\* the arguments are the query (by the box its conversion yields, or
\* null), its type and the strategy number
gist_tnumber_consistent ==
    /\ op = "consistent" /\ pc = "entry"
    /\ \E q \in QBoxes \cup {NullPtr}, st \in Subtypes, strat \in Strategies :
          /\ query' = q /\ subtype' = st /\ strategy' = strat
          /\ recheck' = RecheckOnEntry(isLeaf)
          /\ LET r == ConsistentBody(key, isLeaf, q, st, strat)
             IN  /\ outcome' = r.outcome
                 /\ result' = r.result
                 /\ deref' = r.deref
    /\ pc' = "done"
    /\ UNCHANGED <<op, entryvec, slotRead, key, isLeaf>>
    /\ UNCHANGED splitVars
    /\ UNCHANGED methodVars

-----------------------------------------------------------------------------
(* The entry handed to the consistent method *)

\* gist_tbox_union over the leaf keys gives the key of their internal
\* entry.  With no entries, slot 0 is read all the same: the pointer found
\* there is followed, which crashes or yields some box.
gist_tbox_union ==
    /\ op = "consistent" /\ pc = "start"
    /\ IF Len(entryvec) > 0
       THEN /\ key' = BoundingBoxOf(entryvec)
            /\ pc' = "entry"
            /\ UNCHANGED <<outcome, slotRead>>
       ELSE /\ slotRead' = TRUE
            /\ \/ /\ key' \in QBoxes
                  /\ pc' = "entry"
                  /\ UNCHANGED outcome
               \/ /\ outcome' = "crash"
                  /\ pc' = "done"
                  /\ UNCHANGED key
    /\ isLeaf' = FALSE
    /\ UNCHANGED <<op, entryvec, query, subtype, strategy, result, recheck,
                   deref>>
    /\ UNCHANGED splitVars
    /\ UNCHANGED methodVars

\* the entry is leaf entry j
LeafEntry(j) ==
    /\ op = "consistent" /\ pc = "start"
    /\ j \in 1..Len(entryvec)
    /\ key' = entryvec[j]
    /\ isLeaf' = TRUE
    /\ pc' = "entry"
    /\ UNCHANGED <<op, entryvec, outcome, slotRead, query, subtype, strategy,
                   result, recheck, deref>>
    /\ UNCHANGED splitVars
    /\ UNCHANGED methodVars

\* the entry has no key
NullEntry(leaf) ==
    /\ op = "consistent" /\ pc = "start"
    /\ key' = NullPtr
    /\ isLeaf' = leaf
    /\ pc' = "entry"
    /\ UNCHANGED <<op, entryvec, outcome, slotRead, query, subtype, strategy,
                   result, recheck, deref>>
    /\ UNCHANGED splitVars
    /\ UNCHANGED methodVars

-----------------------------------------------------------------------------
(* The split method on its own *)

Boxes == BoxesUpTo(MaxX, MaxT)

SplitInputs == UNION { [1..n -> Boxes] : n \in 0..MaxEntries }

IdleSplit ==
    /\ context = InitialContext(<<>>)
    /\ candidates = {}
    /\ intervalsLower = <<>> /\ intervalsUpper = <<>>
    /\ dim = 0 /\ i1 = 0 /\ i2 = 0 /\ rightLower = 0 /\ leftUpper = 0
    /\ spl_left = <<>> /\ spl_right = <<>>
    /\ leftBox = NullPtr /\ rightBox = NullPtr
    /\ commonEntries = <<>> /\ i = 0 /\ assertFailed = FALSE

IdleConsistent ==
    /\ key = NullPtr /\ isLeaf = FALSE /\ query = NullPtr
    /\ subtype = "none" /\ strategy = 0
    /\ result = FALSE /\ recheck = FALSE /\ deref = FALSE

IdlePenalty ==
    /\ origbox = NullPtr /\ newbox = NullPtr /\ unionbox = NullPtr
    /\ penalty = 0

IdleCompress ==
    /\ entry = NullPtr /\ retval = NullPtr /\ allocated = {}

InitSplit ==
    /\ op = "picksplit" /\ pc = "start"
    /\ entryvec \in SplitInputs
    /\ outcome = "running" /\ slotRead = FALSE
    /\ IdleSplit
    /\ IdleConsistent
    /\ IdlePenalty
    /\ IdleCompress

NextSplit == gist_tbox_picksplit

SpecSplit == InitSplit /\ [][NextSplit]_vars

-----------------------------------------------------------------------------
(* The split method on the vectors of two scenarios: four clusters that lie  *)
(* far apart, and the intervals of the example in the comment of the axis   *)
(* scan, (0,1), (1,3), (2,3), (2,4)                                         *)

ClusterBoxes ==
    { [xmin |-> 0, xmax |-> 1, tmin |-> 0, tmax |-> 1],
      [xmin |-> 5, xmax |-> 6, tmin |-> 5, tmax |-> 6],
      [xmin |-> 0, xmax |-> 1, tmin |-> 5, tmax |-> 6],
      [xmin |-> 5, xmax |-> 6, tmin |-> 0, tmax |-> 1] }

ExampleIntervals == { <<0, 1>>, <<1, 3>>, <<2, 3>>, <<2, 4>> }

\* the interval every entry has on the other axis
FlatIntervals == { <<0, 0>>, <<0, 1>>, <<2, 4>> }

\* the boxes with an interval of the example on axis d and the interval f on
\* the other axis
ExampleBoxes(d, f) ==
    { IF d = 0
      THEN [xmin |-> v[1], xmax |-> v[2], tmin |-> f[1], tmax |-> f[2]]
      ELSE [xmin |-> f[1], xmax |-> f[2], tmin |-> v[1], tmax |-> v[2]] :
      v \in ExampleIntervals }

\* vectors of four entries over the boxes of one scenario, in every order and
\* with repeated boxes
ScenarioInputs ==
    [1..4 -> ClusterBoxes]
    \cup UNION { [1..4 -> ExampleBoxes(d, f)] : d \in {0, 1}, f \in FlatIntervals }

InitScenario ==
    /\ op = "picksplit" /\ pc = "start"
    /\ entryvec \in ScenarioInputs
    /\ outcome = "running" /\ slotRead = FALSE
    /\ IdleSplit
    /\ IdleConsistent
    /\ IdlePenalty
    /\ IdleCompress

SpecScenario == InitScenario /\ [][NextSplit]_vars

-----------------------------------------------------------------------------
(* The split method on degenerate boxes: inverted bounds, zero width,       *)
(* infinite bounds and NaN bounds                                            *)

\* the intervals on the value axis
DegIntervalsX ==
    { <<0, 1>>, <<1, 0>>, <<0, 0>>, <<1, 1>>, <<0, PosInf>>, <<NegInf, 0>>,
      <<PosInf, PosInf>>, <<0, NaN>>, <<NaN, 0>>, <<NaN, NaN>> }

\* the intervals on the time axis
DegIntervalsT == { <<0, 1>>, <<1, 0>>, <<0, NaN>> }

DegBoxes ==
    { [xmin |-> x[1], xmax |-> x[2], tmin |-> t[1], tmax |-> t[2]] :
        x \in DegIntervalsX, t \in DegIntervalsT }

DegInputs == UNION { [1..n -> DegBoxes] : n \in 1..MaxDegEntries }

InitDegenerate ==
    /\ op = "picksplit" /\ pc = "start"
    /\ entryvec \in DegInputs
    /\ outcome = "running" /\ slotRead = FALSE
    /\ IdleSplit
    /\ IdleConsistent
    /\ IdlePenalty
    /\ IdleCompress

SpecDegenerate == InitDegenerate /\ [][NextSplit]_vars

-----------------------------------------------------------------------------
(* g_tbox_consider_split on its own: one call on a context that holds       *)
(* nothing yet or the data of an earlier candidate.  The arguments are the  *)
(* locals of the scan: dim, rightLower, i1 (minLeftCount), leftUpper and i2 *)
(* (maxLeftCount).                                                          *)

ConsiderSplit ==
    /\ op = "consider" /\ pc = "start"
    /\ context' = g_tbox_consider_split(context, dim, rightLower, i1,
                                        leftUpper, i2)
    /\ pc' = "done"
    /\ outcome' = "returned"
    /\ UNCHANGED <<op, entryvec, slotRead, candidates, intervalsLower,
                   intervalsUpper, dim, i1, i2, rightLower, leftUpper,
                   spl_left, spl_right, leftBox, rightBox, commonEntries, i,
                   assertFailed>>
    /\ UNCHANGED consVars
    /\ UNCHANGED methodVars

\* the bounding boxes of the contexts: the axes differ in range, are equal
\* in range, or one of them has no extent
ConsiderBoundingBoxes ==
    { [xmin |-> 0, xmax |-> 2, tmin |-> 0, tmax |-> 1],
      [xmin |-> 0, xmax |-> 1, tmin |-> 0, tmax |-> 1],
      [xmin |-> 0, xmax |-> 2, tmin |-> 0, tmax |-> 0] }

\* the bounds of the candidates
ConsiderBounds == 0..1

\* a context in which nothing is selected yet
EmptyContext(n, bb) ==
    [entriesCount |-> n, boundingBox |-> bb,
     first |-> TRUE, leftUpper |-> 0, rightLower |-> 0,
     ratio |-> Frac(0, 1), overlap |-> Frac(0, 1), dim |-> 0, range |-> 0]

\* the contexts of n entries: the empty one and those an earlier call left
ContextsOf(n, bb) ==
    { g_tbox_consider_split(EmptyContext(n, bb), d, rl, a, lu, b) :
        d \in {0, 1}, rl \in ConsiderBounds, lu \in ConsiderBounds,
        a \in 0..n, b \in 0..n }

InitConsider ==
    /\ op = "consider" /\ pc = "start"
    /\ entryvec = <<>>
    /\ outcome = "running" /\ slotRead = FALSE
    /\ \E n \in 1..MaxCount, bb \in ConsiderBoundingBoxes :
          /\ context \in ContextsOf(n, bb)
          /\ i1 \in 0..n /\ i2 \in i1..n
    /\ dim \in {0, 1}
    /\ rightLower \in ConsiderBounds /\ leftUpper \in ConsiderBounds
    /\ candidates = {}
    /\ intervalsLower = <<>> /\ intervalsUpper = <<>>
    /\ spl_left = <<>> /\ spl_right = <<>>
    /\ leftBox = NullPtr /\ rightBox = NullPtr
    /\ commonEntries = <<>> /\ i = 0 /\ assertFailed = FALSE
    /\ IdleConsistent
    /\ IdlePenalty
    /\ IdleCompress

NextConsider == ConsiderSplit

SpecConsider == InitConsider /\ [][NextConsider]_vars

-----------------------------------------------------------------------------
(* The consistent method over the entries of a page *)

KeyVectors == UNION { [1..n -> QBoxes] : n \in 0..MaxKeys }

InitConsistent ==
    /\ op = "consistent" /\ pc = "start"
    /\ entryvec \in KeyVectors
    /\ outcome = "running" /\ slotRead = FALSE
    /\ IdleSplit
    /\ IdleConsistent
    /\ IdlePenalty
    /\ IdleCompress

NextConsistent ==
    \/ gist_tbox_union
    \/ \E j \in 1..MaxKeys : LeafEntry(j)
    \/ \E leaf \in BOOLEAN : NullEntry(leaf)
    \/ gist_tnumber_consistent

SpecConsistent == InitConsistent /\ [][NextConsistent]_vars

-----------------------------------------------------------------------------
(* The penalty method *)

\* *result = (float) box_penalty(origbox, newbox);
\* box_penalty leaves the union of the two boxes in its local unionbox
gist_tbox_penalty ==
    /\ op = "penalty" /\ pc = "start"
    /\ unionbox' = rt_tbox_union(origbox, newbox)
    /\ penalty' = box_penalty(origbox, newbox)
    /\ pc' = "done"
    /\ outcome' = "returned"
    /\ UNCHANGED <<op, entryvec, slotRead, origbox, newbox, entry, retval,
                   allocated>>
    /\ UNCHANGED splitVars
    /\ UNCHANGED consVars

\* the coordinates of the boxes: finite ones, +Infinity and NaN
PenaltyValues == (0..MaxP) \cup {PosInf, NaN}

\* every box over these coordinates, whatever the order of its bounds
PenaltyBoxes ==
    [xmin : PenaltyValues, xmax : PenaltyValues,
     tmin : PenaltyValues, tmax : PenaltyValues]

InitPenalty ==
    /\ op = "penalty" /\ pc = "start"
    /\ entryvec = <<>>
    /\ outcome = "running" /\ slotRead = FALSE
    /\ origbox \in PenaltyBoxes /\ newbox \in PenaltyBoxes
    /\ unionbox = NullPtr /\ penalty = 0
    /\ IdleSplit
    /\ IdleConsistent
    /\ IdleCompress

NextPenalty == gist_tbox_penalty

SpecPenalty == InitPenalty /\ [][NextPenalty]_vars

-----------------------------------------------------------------------------
(* The compress method *)

\* a temporal number as the heap holds it: its instants, each a value at a
\* time
Temporals ==
    { [instants |-> q] :
        q \in UNION { [1..n -> [value : 0..MaxP, t : 0..MaxP]] : n \in 1..2 } }

\* temporal_bbox: the smallest box that holds every instant
temporal_bbox(temp) ==
    LET q == temp.instants
        vs == { q[k].value : k \in 1..Len(q) }
        ts == { q[k].t : k \in 1..Len(q) }
    IN  [xmin |-> CHOOSE v \in vs : \A w \in vs : v <= w,
         xmax |-> CHOOSE v \in vs : \A w \in vs : v >= w,
         tmin |-> CHOOSE v \in ts : \A w \in ts : v <= w,
         tmax |-> CHOOSE v \in ts : \A w \in ts : v >= w]

\* a GISTENTRY: addr tells one entry object from another, offset stands for
\* the position fields rel, page and offset
GistEntry(a, k, off, leaf) ==
    [addr |-> a, key |-> k, offset |-> off, leafkey |-> leaf]

\* faulty variant: an entry whose key is a box is copied into a new entry too
CompressAlwaysCopies(e) ==
    LET box == IF e.leafkey THEN temporal_bbox(e.key) ELSE e.key
    IN  [retval |-> GistEntry(e.addr + 1, box, e.offset, FALSE),
         allocated |-> {box}]

\* the body of gist_tnumber_compress: the entry it returns and the boxes it
\* allocates
CompressEntry(e) ==
    IF e.leafkey
    THEN LET box == temporal_bbox(e.key)
         IN  [retval |-> GistEntry(e.addr + 1, box, e.offset, FALSE),
              allocated |-> {box}]
    ELSE [retval |-> e, allocated |-> {}]

gist_tnumber_compress ==
    /\ op = "compress" /\ pc = "start"
    /\ LET r == CompressEntry(entry)
       IN  /\ retval' = r.retval
           /\ allocated' = r.allocated
    /\ pc' = "done"
    /\ outcome' = "returned"
    /\ UNCHANGED <<op, entryvec, slotRead, entry, origbox, newbox, unionbox,
                   penalty>>
    /\ UNCHANGED splitVars
    /\ UNCHANGED consVars

\* the index compresses the entry it got back once more
Recompress ==
    /\ op = "compress" /\ pc = "done"
    /\ entry' = retval
    /\ pc' = "start"
    /\ outcome' = "running"
    /\ UNCHANGED <<op, entryvec, slotRead, retval, allocated, origbox, newbox,
                   unionbox, penalty>>
    /\ UNCHANGED splitVars
    /\ UNCHANGED consVars

\* the entries the index hands to compress: a heap value (leafkey) or an
\* entry that already holds a box
CompressInputs ==
    { GistEntry(0, k, off, TRUE) : k \in Temporals, off \in 1..MaxKeys }
    \cup { GistEntry(0, k, off, FALSE) : k \in PenaltyBoxes, off \in 1..MaxKeys }

InitCompress ==
    /\ op = "compress" /\ pc = "start"
    /\ entryvec = <<>>
    /\ outcome = "running" /\ slotRead = FALSE
    /\ entry \in CompressInputs
    /\ retval = NullPtr /\ allocated = {}
    /\ IdleSplit
    /\ IdleConsistent
    /\ IdlePenalty

NextCompress == gist_tnumber_compress \/ Recompress

SpecCompress == InitCompress /\ [][NextCompress]_vars

-----------------------------------------------------------------------------
(* Every support function *)

Init ==
    \/ InitSplit
    \/ InitConsistent
    \/ InitPenalty
    \/ InitCompress
    \/ InitConsider

Next ==
    \/ NextSplit
    \/ NextConsistent
    \/ NextPenalty
    \/ NextCompress
    \/ NextConsider

Spec == Init /\ [][Next]_vars

-----------------------------------------------------------------------------
(* Properties of the split *)

ToSet(seq) == { seq[k] : k \in 1..Len(seq) }

SplitReturned == op = "picksplit" /\ outcome = "returned"

\* C1 (split completeness): when picksplit returns for n >= 2 entries, the
\* left and right index lists hold no index twice, share no index, and
\* together hold exactly the indexes 1..n, on the double-sorting path and on
\* the fallback path alike.
C1_SplitComplete ==
    (SplitReturned /\ nentries >= 2) =>
        /\ Cardinality(ToSet(spl_left)) = Len(spl_left)
        /\ Cardinality(ToSet(spl_right)) = Len(spl_right)
        /\ ToSet(spl_left) \cap ToSet(spl_right) = {}
        /\ ToSet(spl_left) \cup ToSet(spl_right) = 1..nentries

\* a split of four entries on the double-sorting path that had common
\* entries to distribute
C1_Witness ==
    /\ SplitReturned /\ pc = "done" /\ nentries = 4
    /\ Len(commonEntries) >= 2
    /\ ToSet(spl_left) \cup ToSet(spl_right) = 1..4

\* C2 (minimum fill): when picksplit returns for n >= 2 entries, each group
\* holds at least ceil(0.3 * n) entries, that is 10 * min(|left|, |right|)
\* >= 3 * n, on either path.
C2_MinimumFill ==
    (SplitReturned /\ nentries >= 2) =>
        10 * Min(Len(spl_left), Len(spl_right)) >= 3 * nentries

\* a split whose unambiguous entries alone left one group short of the
\* quota, so that common entries had to fill it to exactly ceil(0.3 * n)
C2_Witness ==
    /\ SplitReturned /\ pc = "done" /\ nentries = 4
    /\ Len(commonEntries) >= 2
    /\ Len(spl_left) = 2
    /\ \A k \in 1..Len(commonEntries) : commonEntries[k].index \in ToSet(spl_left)

\* the component-wise union of the boxes of the listed entries
ExactUnion(vec, list) ==
    LET bs == { vec[list[k]] : k \in 1..Len(list) }
    IN  [xmin |-> CHOOSE v \in { b.xmin : b \in bs } :
                      \A b \in bs : v <= b.xmin,
         xmax |-> CHOOSE v \in { b.xmax : b \in bs } :
                      \A b \in bs : v >= b.xmax,
         tmin |-> CHOOSE v \in { b.tmin : b \in bs } :
                      \A b \in bs : v <= b.tmin,
         tmax |-> CHOOSE v \in { b.tmax : b \in bs } :
                      \A b \in bs : v >= b.tmax]

\* area of the intersection of two boxes
OverlapArea(a, b) ==
    LET w == Min(a.xmax, b.xmax) - (IF a.xmin > b.xmin THEN a.xmin ELSE b.xmin)
        h == Min(a.tmax, b.tmax) - (IF a.tmin > b.tmin THEN a.tmin ELSE b.tmin)
    IN  IF w <= 0 \/ h <= 0 THEN 0 ELSE w * h

\* an index list (in increasing order) of a set of indexes
RECURSIVE ListOf(_)
ListOf(S) ==
    IF S = {} THEN <<>>
    ELSE LET x == CHOOSE y \in S : \A z \in S : y <= z
         IN  <<x>> \o ListOf(S \ {x})

\* the two-way partitions of 1..n whose sides both reach the quota
AdmissibleLefts(n) ==
    { S \in SUBSET (1..n) : /\ 10 * Cardinality(S) >= 3 * n
                            /\ 10 * (n - Cardinality(S)) >= 3 * n }

AcceptedCandidate(c) ==
    LET lc == LeftCount(nentries, c.minLeftCount, c.maxLeftCount)
    IN  10 * Min(lc, nentries - lc) >= 3 * nentries

CandidateOverlap(c) ==
    Frac(c.leftUpper - c.rightLower, AxisRange(context.boundingBox, c.dim))

C6_BoxesExact ==
    (op = "picksplit" /\ pc \in {"distribute", "common", "done", "fallback"}) =>
        /\ Len(spl_left) > 0 => leftBox = ExactUnion(entryvec, spl_left)
        /\ Len(spl_right) > 0 => rightBox = ExactUnion(entryvec, spl_right)

\* a returned split in which both groups grew by placements of common
\* entries after their first entry
C6_Witness ==
    /\ SplitReturned /\ pc = "done"
    /\ Len(spl_left) >= 2 /\ Len(spl_right) >= 2
    /\ \E k \in 1..Len(commonEntries) : commonEntries[k].index \in ToSet(spl_left)
    /\ \E k \in 1..Len(commonEntries) : commonEntries[k].index \in ToSet(spl_right)
    /\ leftBox # rightBox

\* C10 as stated (empty entry vector is fatal): a call on a vector of zero
\* entries ends in the fatal error and reads no entry slot.
C10_EmptyVectorFatal ==
    (op = "picksplit" /\ nentries = 0 /\ outcome # "running") =>
        (outcome = "error" /\ ~slotRead)

-----------------------------------------------------------------------------
(* Properties of the consistent method *)

\* the call of gist_tnumber_consistent is over, on an entry of a page that
\* holds at least one key
Evaluated ==
    /\ op = "consistent" /\ pc = "done" /\ subtype # "none"
    /\ Len(entryvec) >= 1

\* C3 as stated (predicate soundness on the same key): whenever the leaf
\* table accepts (key, query) under a strategy, the internal table accepts
\* the same key, query and strategy.
C3_InternalAdmitsLeafMatch ==
    (Evaluated /\ isLeaf /\ outcome = "returned" /\ key # NullPtr
        /\ query # NullPtr /\ result) =>
        gist_internal_consistent_tbox(key, query, strategy).retval

\* C4 as stated (pruning never loses a match): when the internal table is
\* evaluated on the union of the leaf keys of a page and the leaf table
\* accepts one of these keys for the same query and strategy, the internal
\* evaluation returns true.
C4_PruningKeepsMatches ==
    (Evaluated /\ ~isLeaf /\ outcome = "returned" /\ key # NullPtr
        /\ query # NullPtr
        /\ \E j \in 1..Len(entryvec) :
              index_leaf_consistent_tbox(entryvec[j], query, strategy).retval)
        => result

\* C7 (recheck is always requested): every call of gist_tnumber_consistent
\* that returns an answer has set the recheck flag, at a leaf and at an
\* internal entry, for a match and for a no-match.
C7_RecheckAlways ==
    (Evaluated /\ outcome = "returned") => recheck

\* an internal entry answered "no match" from its strategy table
C7_Witness ==
    /\ Evaluated /\ outcome = "returned" /\ ~isLeaf
    /\ key # NullPtr /\ query # NullPtr /\ ~result /\ recheck

C9_UnrecognizedFatal ==
    (Evaluated /\ strategy \notin RecognizedStrategies) => outcome = "error"

\* C9 as amended: for every non-null key and non-null query, at a leaf and
\* at an internal entry, a call with a strategy outside the 12 ends in the
\* error and returns no answer.
C9_UnrecognizedFatalNonNull ==
    (Evaluated /\ strategy \notin RecognizedStrategies
        /\ key # NullPtr /\ query # NullPtr)
        => (outcome = "error" /\ ~result)

\* an internal entry with a key and a box query, asked with an
\* unrecognized strategy
C9_Witness ==
    /\ Evaluated /\ strategy \notin RecognizedStrategies /\ ~isLeaf
    /\ key # NullPtr /\ query # NullPtr /\ subtype = "T_TBOX"
    /\ outcome = "error"

-----------------------------------------------------------------------------
(* Properties of the box arithmetic *)

PenaltyDone == op = "penalty" /\ pc = "done"

\* xmin <= xmax and tmin <= tmax
ValidBox(b) == DoubleLE(b.xmin, b.xmax) /\ DoubleLE(b.tmin, b.tmax)

\* no bound is infinite or NaN
FiniteBox(b) ==
    \A v \in {b.xmin, b.xmax, b.tmin, b.tmax} : ~isnan(v) /\ ~isinf(v)

\* C11 as stated (union monotonicity): for all boxes a and b the size of
\* their union is at least the size of a and at least the size of b, and for
\* valid a and b the penalty of adding b to a is at least zero.
C11_UnionMonotone ==
    PenaltyDone =>
        /\ DoubleGE(size_tbox(unionbox), size_tbox(origbox))
        /\ DoubleGE(size_tbox(unionbox), size_tbox(newbox))
        /\ (ValidBox(origbox) /\ ValidBox(newbox)) => DoubleGE(penalty, 0)

\* C12 as stated (a NaN bound gives infinite size and penalty): a box whose
\* xmax is NaN has size +Infinity, its penalty against a box of finite bounds
\* is +Infinity in either argument position, and neither a size nor a penalty
\* is ever NaN.
C12_NaNIsInfinite ==
    PenaltyDone =>
        /\ isnan(origbox.xmax) => size_tbox(origbox) = PosInf
        /\ (isnan(origbox.xmax) /\ FiniteBox(newbox)) => penalty = PosInf
        /\ (isnan(newbox.xmax) /\ FiniteBox(origbox)) => penalty = PosInf
        /\ ~isnan(size_tbox(origbox)) /\ ~isnan(size_tbox(unionbox))
        /\ ~isnan(penalty)

-----------------------------------------------------------------------------
(* Properties of the compress method *)

CompressDone == op = "compress" /\ pc = "done"

\* the key of the entry is a box
KeyIsBox(e) == "xmin" \in DOMAIN e.key

\* C13 (compress is idempotent and passes boxed entries through): a call on
\* an entry whose key is a box, the result of an earlier call included,
\* returns that very entry and allocates no box; a call on a heap value
\* returns a new entry, not a leaf key any more, that holds the bounding box
\* of the value at the same position.
C13_CompressIdempotent ==
    CompressDone =>
        IF KeyIsBox(entry)
        THEN retval = entry /\ allocated = {}
        ELSE /\ retval.addr # entry.addr
             /\ ~retval.leafkey
             /\ retval.offset = entry.offset
             /\ retval.key = temporal_bbox(entry.key)
             /\ allocated = {retval.key}

\* the second call, on the entry that the first call made of a heap value
C13_Witness ==
    /\ CompressDone
    /\ entry.addr # 0 /\ KeyIsBox(entry)
    /\ retval = entry /\ allocated = {}

-----------------------------------------------------------------------------
(* Properties of the split on the two scenarios *)

\* the entries are the four clusters, each once, in some order
IsClusterInput ==
    op = "picksplit" /\ nentries = 4 /\ ToSet(entryvec) = ClusterBoxes

\* C14 (well-separated clusters split cleanly): on the four clusters in any
\* order the fallback is not used, the selected candidate has ratio 1/2, and
\* the split returns two groups of two entries whose bounding boxes have an
\* intersection of zero area.
C14_ClustersSplitCleanly ==
    IsClusterInput =>
        /\ pc # "fallback"
        /\ (pc = "select" \/ outcome = "returned") =>
               (~context.first /\ FracEQ(context.ratio, Frac(1, 2)))
        /\ outcome = "returned" =>
               /\ Len(spl_left) = 2 /\ Len(spl_right) = 2
               /\ OverlapArea(leftBox, rightBox) = 0

\* the split of the four clusters given in the order of the scenario
C14_Witness ==
    /\ IsClusterInput /\ outcome = "returned" /\ pc = "done"
    /\ entryvec[1] = [xmin |-> 0, xmax |-> 1, tmin |-> 0, tmax |-> 1]
    /\ entryvec[2] = [xmin |-> 5, xmax |-> 6, tmin |-> 5, tmax |-> 6]
    /\ Len(spl_left) = 2 /\ Len(spl_right) = 2
    /\ leftBox # rightBox

\* the entries have the four intervals of the example on axis d, each once,
\* and one and the same interval on the other axis
IsExampleInput(d) ==
    /\ op = "picksplit" /\ nentries = 4
    /\ { <<LowerOn(entryvec[k], d), UpperOn(entryvec[k], d)>> : k \in 1..4 }
          = ExampleIntervals
    /\ Cardinality({ <<LowerOn(entryvec[k], 1 - d), UpperOn(entryvec[k], 1 - d)>> :
                        k \in 1..4 }) = 1

\* the size of the smaller group of a split of n entries, of which mn must
\* and mx may go left, when the common entries are spread as evenly as they
\* can be: mn left if mn is at least half of n, else mx left if mx is at most
\* half of n, else half of n
SmallerOf(n, mn, mx) ==
    LET lc == IF 2 * mn >= n THEN mn
              ELSE IF 2 * mx <= n THEN mx
              ELSE n \div 2
    IN  Min(lc, n - lc)

SmallerSide(c) == SmallerOf(nentries, c.minLeftCount, c.maxLeftCount)

\* the fill ratio of a candidate exceeds 0.3
RatioAbove3Of10(c) == 10 * SmallerSide(c) > 3 * nentries

\* C15 (worked example): once both axes are scanned, the selected split lies
\* on the axis of the example, its left / right intervals are (0,1)/(0,4),
\* (0,1)/(1,4) or (0,3)/(2,4), no candidate of fill ratio above 0.3 has a
\* smaller overlap ratio (leftUpper - rightLower) / range, and none of equal
\* overlap ratio has a larger fill ratio.
C15_WorkedExample ==
    \A d \in {0, 1} :
        (IsExampleInput(d) /\ dim = 2) =>
            /\ ~context.first
            /\ context.dim = d
            /\ <<context.leftUpper, context.rightLower>>
                   \in { <<1, 0>>, <<1, 1>>, <<3, 2>> }
            /\ \A c \in candidates :
                   RatioAbove3Of10(c) =>
                       /\ context.leftUpper - context.rightLower
                              <= c.leftUpper - c.rightLower
                       /\ (context.leftUpper - context.rightLower
                              = c.leftUpper - c.rightLower) =>
                             FracLE(Frac(SmallerSide(c), nentries),
                                    context.ratio)

\* the example on the time axis, split into (0,3) / (2,4) with the interval
\* (2,3) as a common entry
C15_Witness ==
    /\ IsExampleInput(1) /\ outcome = "returned" /\ pc = "done"
    /\ context.leftUpper = 3 /\ context.rightLower = 2
    /\ Len(commonEntries) = 1
    /\ \E c \in candidates : ~RatioAbove3Of10(c)

-----------------------------------------------------------------------------
(* Properties of the split on degenerate boxes *)

\* an iteration of the outer loop of a scan that is followed by another one
\* has moved the cursor of the loop: i1 up in the first scan, i2 down in the
\* second
ScanAdvances ==
    /\ (pc = "lower" /\ pc' = "lower") => i1' > i1
    /\ (pc = "upper" /\ pc' = "upper") => i2' < i2

\* the phases of the call, counted down to the return
Phase ==
    CASE pc = "start" -> 8
      [] pc = "lower" -> IF dim = 0 THEN 7 ELSE 5
      [] pc = "upper" -> IF dim = 0 THEN 6 ELSE 4
      [] pc = "select" -> 3
      [] pc = "distribute" -> 2
      [] pc = "common" -> 1
      [] OTHER -> 0

\* the iterations the loop of the phase has left at most
Remaining ==
    CASE pc = "lower" -> nentries - i1
      [] pc = "upper" -> i2 + 1
      [] pc = "distribute" -> nentries + 1 - i
      [] pc = "common" -> Len(commonEntries) - i
      [] OTHER -> 0

\* a bound on the number of steps the call has left
Rank == Phase * (nentries + 2) + Remaining

\* the outer iteration about to run leaves its scan or moves the cursor:
\* the inner loop consumes the entry under the cursor, whose bound is the
\* one the loop compares with
CursorWillAdvance ==
    /\ pc = "lower" =>
          LET a == NextRightLower(intervalsLower, i1, rightLower, leftUpper)
          IN  a.i1 >= nentries \/ a.i1 > i1
    /\ pc = "upper" =>
          LET a == NextLeftUpper(intervalsUpper, i2, leftUpper, rightLower)
          IN  a.i2 < 0 \/ a.i2 < i2

\* C16 (termination on degenerate geometry): on every vector of one or more
\* boxes, inverted, zero-width, infinite and NaN bounds included, every outer
\* iteration of either scan advances its cursor, every step of the call
\* lowers a bound on the steps left (so the call cannot run forever), no
\* error is raised, and the call stops only when it has returned a split.
C16_TerminatesOnDegenerate ==
    /\ [][ScanAdvances /\ Rank' < Rank]_vars
    /\ [](/\ outcome \notin {"error", "crash"} /\ ~assertFailed
          /\ Remaining \in 0..nentries
          /\ CursorWillAdvance
          /\ IF outcome = "running"
             THEN pc \in {"start", "lower", "upper", "select", "distribute",
                          "common"}
             ELSE outcome = "returned" /\ pc \in {"done", "fallback"})

\* a split, by the double-sorting path, of three entries among which one has
\* a NaN bound, one an infinite bound and one inverted bounds
C16_Witness ==
    /\ op = "picksplit" /\ outcome = "returned" /\ pc = "done"
    /\ nentries = 3
    /\ \E k \in 1..3 : isnan(entryvec[k].xmax)
    /\ \E k \in 1..3 : isinf(entryvec[k].xmax)
    /\ \E k \in 1..3 : entryvec[k].tmin > entryvec[k].tmax
    /\ Cardinality(candidates) >= 2

-----------------------------------------------------------------------------
(* Properties of the fallback and of the selection of candidates *)

\* the indexes lo..hi in increasing order
Range(lo, hi) == [k \in 1..(hi - lo + 1) |-> lo + k - 1]

\* C17 (fallback split): a call returns by the trivial split exactly when no
\* candidate of either axis had a fill ratio above 0.3; the trivial split
\* places no common entry, puts the first floor(n/2) entries left and the
\* others right, both in input order, and for n >= 2 leaves no group empty.
C17_FallbackSplit ==
    SplitReturned =>
        /\ pc = "fallback" <=> ~\E c \in candidates : RatioAbove3Of10(c)
        /\ pc = "fallback" =>
              /\ commonEntries = <<>>
              /\ spl_left = Range(1, nentries \div 2)
              /\ spl_right = Range(nentries \div 2 + 1, nentries)
              /\ nentries >= 2 => (spl_left # <<>> /\ spl_right # <<>>)

\* a trivial split of four boxes that are not all the same: candidates were
\* considered and every one of them was rejected
C17_Witness ==
    /\ SplitReturned /\ pc = "fallback" /\ nentries = 4
    /\ candidates # {}
    /\ spl_left = <<1, 2>> /\ spl_right = <<3, 4>>

\* the ratio, the range and the overlap of the candidate under consideration
NewRatio == Frac(SmallerOf(context.entriesCount, i1, i2), context.entriesCount)
NewRange ==
    IF dim = 0 THEN FSub(context.boundingBox.xmax, context.boundingBox.xmin)
               ELSE FSub(context.boundingBox.tmax, context.boundingBox.tmin)
NewOverlap == FDiv(FSub(leftUpper, rightLower), NewRange)

\* the candidate under consideration beats the stored split: nothing is
\* stored; or, on the same axis, it has a smaller overlap, or the same
\* overlap and a larger ratio; or, on the other axis, it has a smaller
\* clamped overlap, or the same clamped overlap and a larger range
BeatsStored ==
    \/ context.first
    \/ /\ context.dim = dim
       /\ \/ FracLT(NewOverlap, context.overlap)
          \/ FracEQ(NewOverlap, context.overlap)
             /\ FracLT(context.ratio, NewRatio)
    \/ /\ context.dim # dim
       /\ \/ FracLT(non_negative(NewOverlap), non_negative(context.overlap))
          \/ FracEQ(non_negative(NewOverlap), non_negative(context.overlap))
             /\ DoubleLT(context.range, NewRange)

\* C18 (candidate selection is monotone): a call of g_tbox_consider_split
\* changes the context only if the ratio of the candidate is accepted and
\* the candidate beats the stored split; in every other case no field of the
\* context changes.
C18_SelectionMonotone ==
    [][(op = "consider" /\ context' # context) =>
          (RatioAccepted(NewRatio) /\ BeatsStored)]_vars

\* a call whose candidate had an accepted ratio and lay on the other axis
\* with the same clamped overlap, and left the stored split in place
C18_Witness ==
    /\ op = "consider" /\ pc = "done"
    /\ ~context.first /\ context.dim # dim
    /\ 2 * SmallerOf(context.entriesCount, i1, i2) = context.entriesCount
    /\ FracEQ(non_negative(NewOverlap), non_negative(context.overlap))
    /\ context.range = 2 /\ NewRange = 1

\* C19 as stated (candidate ratio rule): the ratio of a candidate is that of
\* the smaller side under the left-count rule, and a candidate whose ratio is
\* at most 0.3, 3 of 10 for one, is rejected: the context does not change.
C19_RatioRule ==
    [][op = "consider" =>
          LET small == SmallerOf(context.entriesCount, i1, i2)
          IN  /\ 10 * small <= 3 * context.entriesCount => context' = context
              /\ context' # context =>
                    FracEQ(context'.ratio, Frac(small, context.entriesCount))]_vars

-----------------------------------------------------------------------------
(* The distribution of the common entries *)

\* the second assignment loop is running
InCommonLoop == op = "picksplit" /\ pc = "common"

\* no common entry comes after one of strictly larger delta
AscendingDeltas ==
    \A j \in 1..Len(commonEntries), k \in 1..Len(commonEntries) :
        j < k => ~DoubleGT(commonEntries[j].delta, commonEntries[k].delta)

\* every delta is the distance of the two penalties against the current boxes
DeltasFromBoxes ==
    \A k \in 1..Len(commonEntries) :
        LET box == entryvec[commonEntries[k].index]
        IN  commonEntries[k].delta =
                Abs(FSub(box_penalty(leftBox, box), box_penalty(rightBox, box)))

\* the least whole number that is at least 0.3 * n
CeilOfLimit(n) == CHOOSE k \in 0..n : 10 * k >= 3 * n /\ 10 * (k - 1) < 3 * n

\* the next common entry goes where the rule says
PlacedByRule ==
    LET e == commonEntries[i + 1]
        box == entryvec[e.index]
        unplaced == Len(commonEntries) - i
        m == CeilOfLimit(nentries)
        left == IF Len(spl_left) + unplaced <= m THEN TRUE
                ELSE IF Len(spl_right) + unplaced <= m THEN FALSE
                ELSE DoubleLT(box_penalty(leftBox, box),
                              box_penalty(rightBox, box))
    IN  IF left
        THEN spl_left' = Append(spl_left, e.index) /\ spl_right' = spl_right
        ELSE spl_right' = Append(spl_right, e.index) /\ spl_left' = spl_left

\* C20 (common-entry distribution): the common entries are held in ascending
\* order of delta, the deltas are those against the boxes of the two groups
\* before any common entry is placed and do not change afterwards, and each
\* common entry goes left if the left group needs all unplaced ones to reach
\* m = ceil(0.3 * n), else right if the right group does, else to the side of
\* strictly smaller penalty, right on a tie.
C20_CommonDistribution ==
    /\ [](InCommonLoop => (AscendingDeltas /\ (i = 0 => DeltasFromBoxes)))
    /\ [][(InCommonLoop /\ pc' = "common") =>
             (commonEntries' = commonEntries /\ PlacedByRule)]_vars

\* a split in which the sort moved a common entry ahead of one of larger
\* delta, and the common entries went to both sides
C20_Witness ==
    /\ SplitReturned /\ pc = "done"
    /\ Len(commonEntries) >= 2
    /\ commonEntries[1].index > commonEntries[2].index
    /\ commonEntries[1].delta < commonEntries[2].delta
    /\ \E k \in 1..Len(spl_left) : spl_left[k] = commonEntries[1].index
    /\ \E k \in 1..Len(spl_right) : spl_right[k] = commonEntries[2].index

-----------------------------------------------------------------------------
(* Every entry fits the selected split *)

\* a split is selected and the scans are over
SplitSelected ==
    /\ op = "picksplit" /\ ~context.first
    /\ pc \in {"select", "distribute", "common", "done"}

\* the bounds of entry k on the selected axis
SelLower(k) == LowerOn(entryvec[k], context.dim)
SelUpper(k) == UpperOn(entryvec[k], context.dim)

\* The order of the doubles in which NaN is the largest value and equal to
\* itself is the order of the integers that stand for them.
FitsLeft(k) == SelUpper(k) <= context.leftUpper
FitsRight(k) == SelLower(k) >= context.rightLower

\* the overlap of the two group boxes on the selected axis is not above
\* leftUpper - rightLower
OverlapWithinSelected ==
    /\ UpperOn(leftBox, context.dim) <= context.leftUpper
    /\ LowerOn(rightBox, context.dim) >= context.rightLower
    /\ ~DoubleGT(FSub(UpperOn(leftBox, context.dim),
                      LowerOn(rightBox, context.dim)),
                 FSub(context.leftUpper, context.rightLower))

\* C21 (every entry fits the selected split): once a split is selected,
\* every entry has upper <= leftUpper or lower >= rightLower on the selected
\* axis in the NaN-aware order, the Assert of the assignment loop has not
\* failed, every entry of the left group has upper <= leftUpper and every
\* entry of the right group has lower >= rightLower, and while and after the
\* common entries are placed the overlap of the two boxes on that axis is
\* not above leftUpper - rightLower.
C21_EveryEntryFits ==
    SplitSelected =>
        /\ ~assertFailed
        /\ \A k \in 1..nentries : FitsLeft(k) \/ FitsRight(k)
        /\ pc # "select" =>
              /\ \A k \in 1..Len(spl_left) : FitsLeft(spl_left[k])
              /\ \A k \in 1..Len(spl_right) : FitsRight(spl_right[k])
        /\ (pc \in {"common", "done"} /\ spl_left # <<>> /\ spl_right # <<>>)
              => OverlapWithinSelected

\* a finished split of a vector with a NaN bound and an inverted entry on
\* the selected axis, with a common entry and an entry that took the branch
\* of the Assert
C21_Witness ==
    /\ SplitSelected /\ pc = "done"
    /\ \E k \in 1..nentries : SelUpper(k) = NaN \/ SelLower(k) = NaN
    /\ \E k \in 1..nentries : SelLower(k) > SelUpper(k)
    /\ commonEntries # <<>>
    /\ \E k \in 1..Len(spl_right) : ~FitsLeft(spl_right[k])
    /\ spl_left # <<>>

=============================================================================
